---- MODULE Spec2Model ----
(***************************************************************************)
(* A model of tasks/mimic_utils.py: the note filter (filter_notes), the    *)
(* section extractor (extract_sections), the admission-text reducer        *)
(* (filter_admission_text) and the patient-wise splitter                   *)
(* (save_mimic_split_patient_wise).                                        *)
(*                                                                         *)
(* A text is a sequence of one-character strings, so that searching,       *)
(* trimming and joining are computed character by character.               *)
(***************************************************************************)
EXTENDS Integers, Sequences, FiniteSets, TLC

VARIABLES
  pc,                   \* position of the run: which call has returned
  notes_df,             \* filter_notes: the raw note table (argument)
  admissions_df,        \* filter_notes: the admission table (argument)
  admission_text_only,  \* filter_notes: the flag (argument)
  sorted_df,            \* filter_notes: the table after sort_values (line 36)
  consolidated,         \* filter_notes: the table after line 50
  result,               \* filter_notes: the returned table
  text,                 \* extract_sections: the argument
  extracted,            \* extract_sections: the returned mapping
  passes,               \* filter_admission_text: the tables returned, call after call
  df,                   \* save_mimic_split_patient_wise: the corpus (argument)
  data_split,           \* the three reference tables read from tasks/mimic_*.csv
  rng,                  \* the permutation numpy draws for a (seed, length), once drawn
  runs                  \* save_mimic_split_patient_wise: what the last two calls wrote

vars == <<pc, notes_df, admissions_df, admission_text_only, sorted_df, consolidated,
          result, text, extracted, passes, df, data_split, rng, runs>>

\* A missing cell (pandas NaN / None): in a column of numbers, and in TEXT.
NaN == -1

NoText == <<"NaN">>

isna(col, v) == IF col = "TEXT" THEN v = NoText ELSE v = NaN

\* The value of a variable the running specification does not use.
Unused == "unused"

Min(S) == CHOOSE x \in S : \A y \in S : x <= y

Max(S) == CHOOSE x \in S : \A y \in S : x >= y

(***************************************************************************)
(* Texts                                                                   *)
(***************************************************************************)

\* The characters str.strip() removes and the regular expression's \s matches.
WhiteSpace == {" ", "\n", "\t", "\r"}

\* re.IGNORECASE: a letter matches in either case.
ToLower ==
     "A" :> "a" @@ "B" :> "b" @@ "C" :> "c" @@ "D" :> "d" @@ "E" :> "e" @@ "F" :> "f"
  @@ "G" :> "g" @@ "H" :> "h" @@ "I" :> "i" @@ "J" :> "j" @@ "K" :> "k" @@ "L" :> "l"
  @@ "M" :> "m" @@ "N" :> "n" @@ "O" :> "o" @@ "P" :> "p" @@ "Q" :> "q" @@ "R" :> "r"
  @@ "S" :> "s" @@ "T" :> "t" @@ "U" :> "u" @@ "V" :> "v" @@ "W" :> "w" @@ "X" :> "x"
  @@ "Y" :> "y" @@ "Z" :> "z"

Lower(c) == IF c \in DOMAIN ToLower THEN ToLower[c] ELSE c

\* str.strip(): the text without its leading and trailing white space.
Strip(t) ==
  LET solid == {i \in 1..Len(t) : t[i] \notin WhiteSpace}
  IN  IF solid = {} THEN <<>> ELSE SubSeq(t, Min(solid), Max(solid))

\* sep.join(texts)
RECURSIVE Join(_, _)
Join(texts, sep) ==
  IF texts = <<>> THEN <<>>
  ELSE IF Len(texts) = 1 THEN texts[1]
  ELSE texts[1] \o sep \o Join(Tail(texts), sep)

BlankLine == <<"\n", "\n">>

(***************************************************************************)
(* extract_sections                                                        *)
(***************************************************************************)

\* The eight section names, in the order of the dictionary (lines 63-72).
SectionOrder ==
  <<"CHIEF_COMPLAINT", "PRESENT_ILLNESS", "MEDICAL_HISTORY", "MEDICATION_ADM",
    "ALLERGIES", "PHYSICAL_EXAM", "FAMILY_HISTORY", "SOCIAL_HISTORY">>

SectionNames == {SectionOrder[i] : i \in 1..Len(SectionOrder)}

\* The literal each pattern starts with; every pattern goes on with
\* \s*([\s\S]*?)(?:\n\n|\Z).
sections ==
     "CHIEF_COMPLAINT" :> <<"c","h","i","e","f"," ","c","o","m","p","l","a","i","n","t",":">>
  @@ "PRESENT_ILLNESS" :> <<"p","r","e","s","e","n","t"," ","i","l","l","n","e","s","s",":">>
  @@ "MEDICAL_HISTORY" :> <<"m","e","d","i","c","a","l"," ","h","i","s","t","o","r","y",":">>
  @@ "MEDICATION_ADM" :> <<"m","e","d","i","c","a","t","i","o","n","s"," ","o","n"," ","a","d","m","i","s","s","i","o","n",":">>
  @@ "ALLERGIES" :> <<"a","l","l","e","r","g","i","e","s",":">>
  @@ "PHYSICAL_EXAM" :> <<"p","h","y","s","i","c","a","l"," ","e","x","a","m",":">>
  @@ "FAMILY_HISTORY" :> <<"f","a","m","i","l","y"," ","h","i","s","t","o","r","y",":">>
  @@ "SOCIAL_HISTORY" :> <<"s","o","c","i","a","l"," ","h","i","s","t","o","r","y",":">>

\* The literal of the pattern matches the text at position p, in either case.
MatchAt(t, p, literal) ==
  /\ p + Len(literal) - 1 <= Len(t)
  /\ \A i \in 1..Len(literal) : Lower(t[p + i - 1]) = Lower(literal[i])

\* re.search(literal \s*([\s\S]*?)(?:\n\n|\Z), t, re.IGNORECASE | re.DOTALL).
\* The search takes the leftmost place where the literal matches; there \s* takes
\* every white-space character that follows, and the lazy group then grows to the
\* first place where two newlines or the end of the text follow.  That attempt
\* always succeeds (the end of the text is always reached), so no other is tried.
re_search(literal, t) ==
  LET starts == {p \in 1..Len(t) : MatchAt(t, p, literal)}
  IN  IF starts = {} THEN [found |-> FALSE, group |-> <<>>]
      ELSE
        LET n == Len(t)
            q == Min(starts) + Len(literal)
            s == Min({j \in q..(n + 1) : j = n + 1 \/ t[j] \notin WhiteSpace})
            e == Min({j \in s..(n + 1) :
                        \/ j = n + 1
                        \/ (j < n /\ t[j] = "\n" /\ t[j + 1] = "\n")})
        IN  [found |-> TRUE, group |-> SubSeq(t, s, e - 1)]

extract_sections(t) ==
  [key \in SectionNames |->
     LET match == re_search(sections[key], t)
     IN  IF match.found THEN Strip(match.group) ELSE <<>>]

(***************************************************************************)
(* filter_admission_text                                                   *)
(***************************************************************************)

\* The header each section gets in the rebuilt TEXT (lines 101-115).
headers ==
     "CHIEF_COMPLAINT" :> <<"C","H","I","E","F"," ","C","O","M","P","L","A","I","N","T",":"," ">>
  @@ "PRESENT_ILLNESS" :> <<"P","R","E","S","E","N","T"," ","I","L","L","N","E","S","S",":"," ">>
  @@ "MEDICAL_HISTORY" :> <<"M","E","D","I","C","A","L"," ","H","I","S","T","O","R","Y",":"," ">>
  @@ "MEDICATION_ADM" :> <<"M","E","D","I","C","A","T","I","O","N"," ","O","N"," ","A","D","M","I","S","S","I","O","N",":"," ">>
  @@ "ALLERGIES" :> <<"A","L","L","E","R","G","I","E","S",":"," ">>
  @@ "PHYSICAL_EXAM" :> <<"P","H","Y","S","I","C","A","L"," ","E","X","A","M",":"," ">>
  @@ "FAMILY_HISTORY" :> <<"F","A","M","I","L","Y"," ","H","I","S","T","O","R","Y",":"," ">>
  @@ "SOCIAL_HISTORY" :> <<"S","O","C","I","A","L"," ","H","I","S","T","O","R","Y",":"," ">>

\* A filter that looks at all eight sections.
HasAnyInformation(row) == \E key \in SectionNames : row.extracted[key] # <<>>

\* Lines 97-98: the row filter.
HasMainInformation(row) ==
  \/ row.extracted["CHIEF_COMPLAINT"] # <<>>
  \/ row.extracted["PRESENT_ILLNESS"] # <<>>
  \/ row.extracted["MEDICAL_HISTORY"] # <<>>

\* Lines 101-115: header and value of each section, a blank line between sections.
RebuildText(values) ==
  Join([i \in 1..Len(SectionOrder) |->
          headers[SectionOrder[i]] \o values[SectionOrder[i]]], BlankLine)

\* On a table without rows, Series.apply returns an empty Series and no section
\* column is added (lines 90-93): reading notes_df.CHIEF_COMPLAINT (line 97) then
\* raises AttributeError.
reducer_raises(table) == table = <<>>

\* The table with the extracted values added to each row (lines 90-93), the rows
\* without main information dropped, and TEXT rebuilt.
filter_admission_text(table) ==
  LET expanded == [i \in 1..Len(table) |->
                     table[i] @@ ("extracted" :> extract_sections(table[i].TEXT))]
      kept == SelectSeq(expanded, HasMainInformation)
  IN  [i \in 1..Len(kept) |->
         [kept[i] EXCEPT !.TEXT = RebuildText(kept[i].extracted)]]

(***************************************************************************)
(* The text specification: extract_sections and filter_admission_text on   *)
(* one text, the reducer then run again on the text it rebuilt.            *)
(***************************************************************************)

\* The longest input text, in pieces.
MaxPieces == 4

\* The number of times the reducer is run on its own output.
MaxPasses == 2

\* What input texts are made of: section labels as clinicians write them, a word,
\* a blank and a newline.
Pieces ==
  { <<"C","h","i","e","f"," ","C","o","m","p","l","a","i","n","t",":">>,
    <<"P","a","s","t"," ","M","e","d","i","c","a","l"," ","H","i","s","t","o","r","y",":">>,
    <<"A","l","l","e","r","g","i","e","s",":">>,
    <<"M","e","d","i","c","a","t","i","o","n","s"," ","o","n"," ","A","d","m","i","s","s","i","o","n",":">>,
    <<"x">>, <<" ">>, <<"\n">> }

TextInputs ==
  UNION { { Join(ps, <<>>) : ps \in [1..n -> Pieces] } : n \in 0..MaxPieces }

InitText ==
  /\ pc = "text"
  /\ text \in TextInputs
  /\ extracted = Unused
  /\ passes = <<>>
  /\ notes_df = Unused /\ admissions_df = Unused /\ admission_text_only = Unused
  /\ sorted_df = Unused /\ consolidated = Unused /\ result = Unused
  /\ df = Unused /\ data_split = Unused /\ rng = Unused /\ runs = Unused

\* A call of extract_sections(text).
ExtractSections ==
  /\ pc = "text"
  /\ extracted' = extract_sections(text)
  /\ pc' = "extracted"
  /\ UNCHANGED <<text, passes, notes_df, admissions_df, admission_text_only, sorted_df,
                 consolidated, result, df, data_split, rng, runs>>

\* The one-row table the next call of the reducer is given: the input text first,
\* then the TEXT column of the table the last call returned.
ReducerInput ==
  IF passes = <<>> THEN << [TEXT |-> text] >>
  ELSE LET last == passes[Len(passes)]
       IN  [i \in 1..Len(last) |-> [TEXT |-> last[i].TEXT]]

\* A call of filter_admission_text: it returns a table, or raises on an empty one.
ReduceText ==
  /\ pc = "extracted"
  /\ Len(passes) < MaxPasses
  /\ IF reducer_raises(ReducerInput)
       THEN pc' = "raised" /\ UNCHANGED passes
       ELSE pc' = pc /\ passes' = Append(passes, filter_admission_text(ReducerInput))
  /\ UNCHANGED <<text, extracted, notes_df, admissions_df, admission_text_only,
                 sorted_df, consolidated, result, df, data_split, rng, runs>>

NextText == ExtractSections \/ ReduceText

SpecText == InitText /\ [][NextText]_vars

(***************************************************************************)
(* Tables: a table is a sequence of rows, a row a record of its columns.   *)
(***************************************************************************)

\* The rearrangements of n rows: n put at every place of every rearrangement of
\* n - 1 rows.
RECURSIVE Permutations_of(_)
Permutations_of(n) ==
  IF n = 0 THEN {<<>>}
  ELSE UNION {{SubSeq(p, 1, k - 1) \o <<n>> \o SubSeq(p, k, n - 1) : k \in 1..n} :
                p \in Permutations_of(n - 1)}

\* The rows of a table at the positions in keep, in the table's order.
RowsAt(table, keep) ==
  LET at == SelectSeq([i \in 1..Len(table) |-> i], LAMBDA i : i \in keep)
  IN  [k \in 1..Len(at) |-> table[at[k]]]

\* The values of a column.
Column(table, col) == {table[i][col] : i \in 1..Len(table)}

\* DataFrame.dropna(subset=cols)
dropna(table, cols) ==
  RowsAt(table, {i \in 1..Len(table) : \A c \in cols : ~isna(c, table[i][c])})

\* DataFrame.sort_values(by=["CHARTDATE"]): missing dates last.
DateKey(row) == IF row.CHARTDATE = NaN THEN 1000000 ELSE row.CHARTDATE

Chronological(table) ==
  \A i \in 1..(Len(table) - 1) : DateKey(table[i]) <= DateKey(table[i + 1])

\* The default sort (quicksort) is not stable: rows of equal CHARTDATE come out in
\* any order, so sort_values has a set of possible outcomes.
sort_values(table) ==
  {s \in {[i \in 1..Len(table) |-> table[p[i]]] : p \in Permutations_of(Len(table))} :
     Chronological(s)}

\* DataFrame.drop_duplicates(subset=[col], keep="first")
drop_duplicates_first(table, col) ==
  RowsAt(table, {i \in 1..Len(table) :
                   \A j \in 1..(i - 1) : table[j][col] # table[i][col]})

\* DataFrame.drop_duplicates(subset=[col], keep="last")
drop_duplicates(table, col) ==
  RowsAt(table, {i \in 1..Len(table) :
                   \A j \in (i + 1)..Len(table) : table[j][col] # table[i][col]})

\* The keys of a groupby, ascending.
RECURSIVE Ascending(_)
Ascending(S) ==
  IF S = {} THEN <<>> ELSE LET m == Max(S) IN Append(Ascending(S \ {m}), m)

\* pd.merge(left, right, on="HADM_ID", how="inner"): every pair of a left and a
\* right row of equal HADM_ID, the columns of both.
RECURSIVE merge(_, _)
merge(left, right) ==
  IF left = <<>> THEN <<>>
  ELSE LET l == left[Len(left)]
           matches == SelectSeq(right, LAMBDA r : r.HADM_ID = l.HADM_ID)
       IN  merge(SubSeq(left, 1, Len(left) - 1), right)
             \o [i \in 1..Len(matches) |->
                   [HADM_ID |-> l.HADM_ID, TEXT |-> l.TEXT,
                    ROW_ID |-> matches[i].ROW_ID,
                    SUBJECT_ID |-> matches[i].SUBJECT_ID,
                    CHARTDATE |-> matches[i].CHARTDATE]]

(***************************************************************************)
(* filter_notes                                                            *)
(***************************************************************************)

\* The admission table with no row removed.
adm_grownups_all(admissions) == admissions

\* Line 26: the admissions that are not newborns.
adm_grownups(admissions) ==
  SelectSeq(admissions, LAMBDA a : a.ADMISSION_TYPE # "NEWBORN")

\* Lines 27-33: the notes of those admissions, with TEXT and HADM_ID, that are
\* discharge summaries.
discharge_summaries(notes, admissions) ==
  LET of_grownups ==
        SelectSeq(notes,
                  LAMBDA n : n.HADM_ID \in Column(adm_grownups(admissions), "HADM_ID"))
      present == dropna(of_grownups, {"TEXT", "HADM_ID"})
  IN  SelectSeq(present, LAMBDA n : n.CATEGORY = "Discharge summary")

\* Duplicate texts removed, the earlier row kept.
unique_texts_first(sorted) == drop_duplicates_first(sorted, "TEXT")

\* Line 37: duplicate texts removed, the later row kept.
unique_texts(sorted) == drop_duplicates(sorted, "TEXT")

\* Line 40: the texts of each admission joined, one row per admission.
combined_adm_texts(notes) ==
  LET keys == Ascending(Column(notes, "HADM_ID"))
  IN  [k \in 1..Len(keys) |->
         LET group == SelectSeq(notes, LAMBDA n : n.HADM_ID = keys[k])
         IN  [HADM_ID |-> keys[k],
              TEXT |-> Join([i \in 1..Len(group) |-> group[i].TEXT], BlankLine)]]

\* Lines 41-42: the rows described as "Report", four columns of them.
report_rows(notes) ==
  LET reports == SelectSeq(notes, LAMBDA n : n.DESCRIPTION = "Report")
  IN  [i \in 1..Len(reports) |->
         [HADM_ID |-> reports[i].HADM_ID, ROW_ID |-> reports[i].ROW_ID,
          SUBJECT_ID |-> reports[i].SUBJECT_ID, CHARTDATE |-> reports[i].CHARTDATE]]

\* The earliest "Report" row of each admission.
representatives_first(notes) == drop_duplicates_first(report_rows(notes), "HADM_ID")

\* Every "Report" row of each admission.
representatives_all(notes) == report_rows(notes)

\* Line 43: one "Report" row per admission, the latest.
representatives(notes) == drop_duplicates(report_rows(notes), "HADM_ID")

\* Lines 37-50, from the sorted table on.
consolidate(sorted) ==
  LET notes == unique_texts(sorted)
      merged == merge(combined_adm_texts(notes), representatives(notes))
      stripped == [i \in 1..Len(merged) |->
                     [merged[i] EXCEPT !.TEXT = Strip(merged[i].TEXT)]]
  IN  dropna(stripped, {"HADM_ID", "SUBJECT_ID", "TEXT"})

\* Lines 52-54: the reducer is called when the flag is set.
reducer_is_called(flag) == flag

\* Lines 52-56: the table returned.
reduce_if_asked(table, flag) == IF flag THEN filter_admission_text(table) ELSE table

(***************************************************************************)
(* The main specification: one call of filter_notes.                       *)
(***************************************************************************)

\* The most rows of the raw note table.
MaxNotes == 3

HadmIds == {1, 2}

Dates == {1, 2}

\* Every note of an admission carries the admission's patient.
SubjectOf(h) == 100 * h

\* "chief complaint: x" and a newline; a blank and "y"; "Allergies: z".
TextComplaint == <<"c","h","i","e","f"," ","c","o","m","p","l","a","i","n","t",":"," ","x","\n">>

TextPlain == <<" ","y">>

TextAllergies == <<"A","l","l","e","r","g","i","e","s",":"," ","z">>

Note(h, d, desc, t) ==
  [SUBJECT_ID |-> SubjectOf(h), HADM_ID |-> h, CHARTDATE |-> d,
   CATEGORY |-> "Discharge summary", DESCRIPTION |-> desc, TEXT |-> t]

\* The rows a raw note table is made of (ROW_ID is given by the position): the
\* discharge summaries of two admissions, and rows that lack a cell, have another
\* category, name a third admission or carry a text of their own.
NoteInputs ==
  {Note(h, d, desc, t) : h \in HadmIds, d \in Dates,
                         desc \in {"Report", "Addendum"}, t \in {TextComplaint, TextPlain}}
  \cup {[Note(1, 1, "Report", TextPlain) EXCEPT !.TEXT = NoText],
        [Note(1, 1, "Report", TextPlain) EXCEPT !.HADM_ID = NaN],
        [Note(1, 1, "Report", TextPlain) EXCEPT !.CATEGORY = "Nursing"],
        [Note(1, 2, "Report", TextPlain) EXCEPT !.SUBJECT_ID = NaN],
        [Note(1, 1, "Report", TextPlain) EXCEPT !.CHARTDATE = NaN],
        Note(3, 1, "Report", TextComplaint),
        Note(1, 1, "Report", TextAllergies)}

RECURSIVE SetToSeq(_)
SetToSeq(S) ==
  IF S = {} THEN <<>> ELSE LET x == CHOOSE x \in S : TRUE IN <<x>> \o SetToSeq(S \ {x})

NoteKinds == SetToSeq(NoteInputs)

Admission(h, type) == [HADM_ID |-> h, ADMISSION_TYPE |-> type]

\* The admission tables: with a newborn as third admission; with a newborn as
\* first; with an admission id on two rows (an emergency and a newborn).
AdmissionTables ==
  { <<Admission(1, "EMERGENCY"), Admission(2, "ELECTIVE"), Admission(3, "NEWBORN")>>,
    <<Admission(1, "NEWBORN"), Admission(2, "URGENT")>>,
    <<Admission(1, "EMERGENCY"), Admission(1, "NEWBORN"), Admission(2, "NEWBORN")>> }

\* The rows of a raw note table are told apart by ROW_ID, and no step of
\* filter_notes depends on the order they are given in (the first step that reads
\* the order is the sort, whose ties fall in any order): one table stands for all
\* its rearrangements.
Init ==
  /\ pc = "notes"
  /\ \E n \in 0..MaxNotes : \E kind \in [1..n -> 1..Len(NoteKinds)] :
       /\ \A i \in 1..(n - 1) : kind[i] <= kind[i + 1]
       /\ notes_df = [i \in 1..n |-> NoteKinds[kind[i]] @@ ("ROW_ID" :> i)]
  /\ admissions_df \in AdmissionTables
  /\ admission_text_only = FALSE
  /\ sorted_df = Unused /\ consolidated = Unused /\ result = Unused
  /\ text = Unused /\ extracted = Unused /\ passes = Unused
  /\ df = Unused /\ data_split = Unused /\ rng = Unused /\ runs = Unused

\* A call of filter_notes(notes_df, admissions_df, flag): it returns a table, or
\* raises when the reducer is asked for and no admission is left.
FilterNotes ==
  /\ pc = "notes"
  /\ \E flag \in BOOLEAN :
     \E sorted \in sort_values(discharge_summaries(notes_df, admissions_df)) :
     \E merged \in {consolidate(sorted)} :
       /\ admission_text_only' = flag
       /\ sorted_df' = sorted
       /\ consolidated' = merged
       /\ IF reducer_is_called(flag) /\ reducer_raises(merged)
            THEN pc' = "raised" /\ result' = Unused
            ELSE pc' = "filtered" /\ result' = reduce_if_asked(merged, flag)
  /\ UNCHANGED <<notes_df, admissions_df, text, extracted, passes, df, data_split, rng, runs>>

Next == FilterNotes

Spec == Init /\ [][Next]_vars

(***************************************************************************)
(* save_mimic_split_patient_wise                                           *)
(***************************************************************************)

SplitNames == <<"train", "val", "test">>

\* The default column_list (line 126), the label column being LABEL.
column_list == <<"ID", "TEXT", "LABEL">>

\* str.lower on the column names (line 146).
str_lower == "ID" :> "id" @@ "TEXT" :> "text" @@ "LABEL" :> "label"

\* Lines 134-135: HADM_ID renamed to ID and cast to int (the ids are whole numbers).
rename_id(row) ==
  [ID |-> row.HADM_ID, SUBJECT_ID |-> row.SUBJECT_ID, TEXT |-> row.TEXT,
   LABEL |-> row.LABEL]

\* Line 142 written as a join with the reference table: a row comes once for every
\* reference row of its patient.
RECURSIVE joined_rows(_, _)
joined_rows(table, reference) ==
  IF table = <<>> THEN <<>>
  ELSE LET i == Len(table)
           hits == SelectSeq(reference, LAMBDA r : r.SUBJECT_ID = table[i].SUBJECT_ID)
       IN  joined_rows(SubSeq(table, 1, i - 1), reference) \o [k \in 1..Len(hits) |-> i]

\* Line 142: df[df.SUBJECT_ID.isin(reference.SUBJECT_ID)], as the index labels
\* (positions in df) of the rows selected, in the order of df.
selected_rows(table, reference) ==
  LET mask == {i \in 1..Len(table) :
                 table[i].SUBJECT_ID \in Column(reference, "SUBJECT_ID")}
  IN  RowsAt([i \in 1..Len(table) |-> i], mask)

\* A shuffle that is not seeded draws any permutation, every time.
unseeded_draws(drawn, seed, n) == Permutations_of(n)

\* sample(frac=1, random_state=seed) of n rows (lines 142-143): numpy's generator,
\* seeded with seed, permutes them.  The permutation is a function of seed and n
\* that the model does not compute: it is any permutation the first time, and the
\* same one ever after.
draws(drawn, seed, n) ==
  IF <<seed, n>> \in DOMAIN drawn THEN {drawn[<<seed, n>>]} ELSE Permutations_of(n)

remember(drawn, seed, n, p) ==
  IF <<seed, n>> \in DOMAIN drawn THEN drawn ELSE drawn @@ (<<seed, n>> :> p)

\* The rows in the order the permutation gives.
sample(rows, p) == [i \in 1..Len(rows) |-> rows[p[i]]]

\* Lines 143-150: the columns of column_list, their names in lower case, every
\* field quoted.
to_csv(table, index) ==
  [columns |-> [c \in 1..Len(column_list) |-> str_lower[column_list[c]]],
   quoting |-> "QUOTE_ALL",
   rows |-> [i \in 1..Len(index) |->
               [c \in 1..Len(column_list) |-> rename_id(table[index[i]])[column_list[c]]]]]

(***************************************************************************)
(* The split specification: calls of save_mimic_split_patient_wise on one  *)
(* corpus and one set of reference tables.                                 *)
(***************************************************************************)

\* The default seed (line 13) and another.
\* The most rows of the corpus.
MaxRows == 3

Seeds == {123, 7}

Patients == {100, 200, 300}

Reference(col) == [i \in 1..Len(col) |-> [SUBJECT_ID |-> col[i]]]

References(train, val, test) ==
  "train" :> Reference(train) @@ "val" :> Reference(val) @@ "test" :> Reference(test)

\* The reference tables read from tasks/mimic_*.csv: disjoint ones; disjoint ones
\* that name a patient twice and leave val empty; ones that share patients.
\* Patient 300 is in no reference table.
ReferenceInputs ==
  { References(<<100>>, <<200>>, <<>>),
    References(<<200, 200>>, <<>>, <<100>>),
    References(<<100, 200, 100>>, <<200>>, <<100, 200>>) }

\* The rows of the corpus are told apart by HADM_ID, and their order is read only
\* by the shuffle, which may be any: one corpus stands for its rearrangements.
InitSplit ==
  /\ pc = "corpus"
  /\ \E n \in 0..MaxRows : \E patient \in [1..n -> Patients] :
       /\ \A i \in 1..(n - 1) : patient[i] <= patient[i + 1]
       /\ df = [i \in 1..n |->
                  [HADM_ID |-> 10 + i, SUBJECT_ID |-> patient[i],
                   TEXT |-> "note", LABEL |-> patient[i] \div 200]]
  /\ data_split \in ReferenceInputs
  /\ rng = <<>>
  /\ runs = <<>>
  /\ notes_df = Unused /\ admissions_df = Unused /\ admission_text_only = Unused
  /\ sorted_df = Unused /\ consolidated = Unused /\ result = Unused
  /\ text = Unused /\ extracted = Unused /\ passes = Unused

\* The calls so far, the last two kept: every call writes over the files of the
\* call before it.
LastTwo(calls) == IF Len(calls) <= 2 THEN calls ELSE Tail(calls)

\* A call of save_mimic_split_patient_wise(df, "LABEL", save_dir, task_name, seed):
\* the loop over the three splits, each drawing its shuffle.
SaveSplit ==
  /\ pc = "corpus"
  /\ \E seed \in Seeds :
     \E train \in {selected_rows(df, data_split["train"])} :
     \E val \in {selected_rows(df, data_split["val"])} :
     \E test \in {selected_rows(df, data_split["test"])} :
     \E p1 \in draws(rng, seed, Len(train)) :
     \E rng1 \in {remember(rng, seed, Len(train), p1)} :
     \E p2 \in draws(rng1, seed, Len(val)) :
     \E rng2 \in {remember(rng1, seed, Len(val), p2)} :
     \E p3 \in draws(rng2, seed, Len(test)) :
     \E split_set \in {"train" :> sample(train, p1) @@ "val" :> sample(val, p2)
                          @@ "test" :> sample(test, p3)} :
       /\ rng' = remember(rng2, seed, Len(test), p3)
       /\ runs' = LastTwo(Append(runs,
                     [seed |-> seed,
                      split_set |-> split_set,
                      files |-> [s \in DOMAIN split_set |-> to_csv(df, split_set[s])]]))
  /\ UNCHANGED <<pc, df, data_split, notes_df, admissions_df, admission_text_only,
                 sorted_df, consolidated, result, text, extracted, passes>>

NextSplit == SaveSplit

SpecSplit == InitSplit /\ [][NextSplit]_vars

(***************************************************************************)
(* Properties of filter_notes (specification Spec)                         *)
(***************************************************************************)

Returned == pc = "filtered"

Rows(table) == {table[i] : i \in 1..Len(table)}

DischargeSummary(note) ==
  /\ note.CATEGORY = "Discharge summary"
  /\ note.TEXT # NoText
  /\ note.HADM_ID # NaN

Grownup(h) ==
  \E a \in 1..Len(admissions_df) :
    admissions_df[a].HADM_ID = h /\ admissions_df[a].ADMISSION_TYPE # "NEWBORN"

Newborn(h) ==
  \E a \in 1..Len(admissions_df) :
    admissions_df[a].HADM_ID = h /\ admissions_df[a].ADMISSION_TYPE = "NEWBORN"

UniqueAdmissionIds ==
  \A a, b \in 1..Len(admissions_df) :
    admissions_df[a].HADM_ID = admissions_df[b].HADM_ID => a = b

\* The row at position i of the sorted table is the last one with its text.
Survives(i) ==
  \A j \in (i + 1)..Len(sorted_df) : sorted_df[j].TEXT # sorted_df[i].TEXT

ReportsOf(h) ==
  {i \in 1..Len(sorted_df) :
     sorted_df[i].HADM_ID = h /\ sorted_df[i].DESCRIPTION = "Report"}

SameRepresentative(row, note) ==
  /\ row.ROW_ID = note.ROW_ID
  /\ row.SUBJECT_ID = note.SUBJECT_ID
  /\ row.CHARTDATE = note.CHARTDATE

\* C2: whatever the note table, the admission table and the flag, no two rows of the
\* table filter_notes returns have the same HADM_ID.
C2_OneRowPerAdmission ==
  Returned =>
    \A i, j \in 1..Len(result) : result[i].HADM_ID = result[j].HADM_ID => i = j

\* C2's case: the reducer was asked for and an admission is returned that
\* had two "Report" rows to choose from.
C2_Witness ==
  /\ Returned /\ admission_text_only /\ result # <<>>
  /\ \E i, j \in ReportsOf(result[1].HADM_ID) : i # j /\ Survives(i) /\ Survives(j)

\* C3: every row returned has the id of an admission of the admission table that is
\* not a newborn's, and of a raw note of category "Discharge summary" with TEXT and
\* HADM_ID; where admission ids are unique, no newborn's admission is returned.
C3_OnlyGrownupAdmissionsWithNotes ==
  Returned =>
    \A i \in 1..Len(result) :
      LET h == result[i].HADM_ID
      IN  /\ Grownup(h)
          /\ \E n \in 1..Len(notes_df) :
               notes_df[n].HADM_ID = h /\ DischargeSummary(notes_df[n])
          /\ UniqueAdmissionIds => ~Newborn(h)

\* C3's case: admission ids are unique, an admission is returned, and a newborn's
\* discharge summary with a "Report" row was in the raw notes.
C3_Witness ==
  /\ Returned /\ result # <<>> /\ UniqueAdmissionIds
  /\ \E n \in 1..Len(notes_df) :
       /\ DischargeSummary(notes_df[n]) /\ notes_df[n].DESCRIPTION = "Report"
       /\ notes_df[n].SUBJECT_ID # NaN
       /\ Newborn(notes_df[n].HADM_ID)

\* The rows of the sorted table that contribute to admission h's text.
Contributors(h) ==
  {i \in 1..Len(sorted_df) : sorted_df[i].HADM_ID = h /\ Survives(i)}

\* C4: without the reducer, the sorted table holds the discharge summaries of the
\* grown-up admissions in ascending CHARTDATE order, and the TEXT of every row
\* returned is the trimmed concatenation, two newlines between, of the texts of its
\* admission's rows in that order, a text counting only for the last row of the
\* whole table that carries it.
C4_MergedTextIsChronological ==
  (Returned /\ ~admission_text_only) =>
    /\ Chronological(sorted_df)
    /\ Rows(sorted_df) =
         {note \in Rows(notes_df) : DischargeSummary(note) /\ Grownup(note.HADM_ID)}
    /\ Len(sorted_df) = Cardinality(Rows(sorted_df))
    /\ \A r \in 1..Len(result) :
         LET own == RowsAt(sorted_df, Contributors(result[r].HADM_ID))
         IN  result[r].TEXT =
               Strip(Join([i \in 1..Len(own) |-> own[i].TEXT], BlankLine))

\* C4's case: an admission returned with two contributing rows of different dates,
\* the earlier text first, and a third row of it dropped as a duplicate.
C4_Witness ==
  /\ Returned /\ ~admission_text_only
  /\ \E r \in 1..Len(result) :
       LET h == result[r].HADM_ID
       IN  /\ \E i, j \in Contributors(h) :
                /\ Contributors(h) = {i, j}
                /\ DateKey(sorted_df[i]) < DateKey(sorted_df[j])
                /\ result[r].TEXT =
                     Strip(sorted_df[i].TEXT \o BlankLine \o sorted_df[j].TEXT)
                /\ result[r].TEXT # sorted_df[i].TEXT \o BlankLine \o sorted_df[j].TEXT
           /\ \E k \in 1..Len(sorted_df) : sorted_df[k].HADM_ID = h /\ ~Survives(k)

ContainsLabel(t) ==
  \E key \in SectionNames : \E p \in 1..Len(t) : MatchAt(t, p, sections[key])

IsReturned(h) == \E j \in 1..Len(result) : result[j].HADM_ID = h

\* C7: with the reducer, a consolidated record is returned exactly when one of
\* CHIEF_COMPLAINT, PRESENT_ILLNESS, MEDICAL_HISTORY extracted from its text is not
\* empty, and a record whose text holds no section label has eight empty values and
\* is not returned; without the reducer the consolidated table is returned as it is.
C7_ReducerKeepsMainInformation ==
  Returned =>
    IF admission_text_only
    THEN /\ \A i \in 1..Len(consolidated) :
              LET t == consolidated[i].TEXT
                  values == extract_sections(t)
              IN  /\ IsReturned(consolidated[i].HADM_ID) <=>
                       \/ values["CHIEF_COMPLAINT"] # <<>>
                       \/ values["PRESENT_ILLNESS"] # <<>>
                       \/ values["MEDICAL_HISTORY"] # <<>>
                  /\ ~ContainsLabel(t) =>
                       /\ \A key \in SectionNames : values[key] = <<>>
                       /\ ~IsReturned(consolidated[i].HADM_ID)
         /\ Column(result, "HADM_ID") \subseteq Column(consolidated, "HADM_ID")
         /\ Len(result) <= Len(consolidated)
    ELSE result = consolidated

\* C7's case: the reducer was asked for; of two consolidated records, the one
\* without any label is dropped and the one with a chief complaint is returned.
C7_Witness ==
  /\ Returned /\ admission_text_only
  /\ Len(consolidated) = 2 /\ Len(result) = 1
  /\ \E i \in 1..2 :
       ~ContainsLabel(consolidated[i].TEXT) /\ ~IsReturned(consolidated[i].HADM_ID)
  /\ result[1].extracted["CHIEF_COMPLAINT"] # <<>>

\* C10: without the reducer, every admission of the admission table that is not a
\* newborn's and has a raw note of category "Discharge summary", described as
\* "Report", with TEXT, HADM_ID and SUBJECT_ID, is returned, whatever the other notes.
C10_ReportAdmissionIsReturned ==
  (Returned /\ ~admission_text_only) =>
    \A n \in 1..Len(notes_df) :
      ( /\ DischargeSummary(notes_df[n])
        /\ notes_df[n].DESCRIPTION = "Report"
        /\ notes_df[n].SUBJECT_ID # NaN
        /\ Grownup(notes_df[n].HADM_ID) )
      => IsReturned(notes_df[n].HADM_ID)

(***************************************************************************)
(* Properties of extract_sections and filter_admission_text (SpecText)     *)
(***************************************************************************)

\* What follows the first occurrence of the label up to the next blank line or the
\* end of the text, trimmed; the empty text when the label does not occur.
ContentUpToBlankLine(t, literal) ==
  LET starts == {p \in 1..Len(t) : MatchAt(t, p, literal)}
  IN  IF starts = {} THEN <<>>
      ELSE
        LET n == Len(t)
            q == Min(starts) + Len(literal)
            e == Min({j \in q..(n + 1) :
                        \/ j = n + 1
                        \/ (j < n /\ t[j] = "\n" /\ t[j + 1] = "\n")})
        IN  Strip(SubSeq(t, q, e - 1))

\* C6: for every text and section, extract_sections returns what follows the first
\* occurrence of the label, in either case, up to the next blank line or the end of
\* the text, trimmed, and the empty text when the label is absent; a label followed
\* at once by a blank line gives the empty text.
C6_ContentUpToBlankLine ==
  pc = "extracted" =>
    \A key \in SectionNames : extracted[key] = ContentUpToBlankLine(text, sections[key])

\* No section value holds a section label, as searched or as rebuilt.
NoNestedLabels(values) ==
  \A key, other \in SectionNames :
    \A p \in 1..Len(values[key]) :
      /\ ~MatchAt(values[key], p, sections[other])
      /\ ~MatchAt(values[key], p, Strip(headers[other]))

\* C8: when the reducer is run again on the text it rebuilt for a record it kept,
\* whose section values hold no section label, it keeps the record, extracts the
\* same eight values and rebuilds the same text.
C8_RebuiltTextRoundTrip ==
  (passes # <<>> /\ Len(passes) >= 2 /\ NoNestedLabels(passes[1][1].extracted)) =>
    /\ passes[2] # <<>>
    /\ passes[2][1].extracted = passes[1][1].extracted
    /\ passes[2][1].TEXT = passes[1][1].TEXT

(***************************************************************************)
(* Properties of save_mimic_split_patient_wise (SpecSplit)                 *)
(***************************************************************************)

Occurrences(seq, x) == Cardinality({i \in 1..Len(seq) : seq[i] = x})

Range(seq) == {seq[i] : i \in 1..Len(seq)}

Splits == Range(SplitNames)

Listed(s) == Column(data_split[s], "SUBJECT_ID")

DisjointReferences ==
  \A s, t \in Splits : s # t => Listed(s) \cap Listed(t) = {}

\* C1: in every call, a row of the corpus is written to the file of a split exactly
\* when its SUBJECT_ID is in the split's reference table, and then once; so with
\* disjoint reference tables no row and no patient is in two splits, and the rows of
\* a patient in no reference table are in no file.
C1_RowsFollowTheReference ==
  \A r \in 1..Len(runs) :
    /\ \A s \in Splits :
         /\ \A i \in 1..Len(df) :
              Occurrences(runs[r].split_set[s], i) =
                IF df[i].SUBJECT_ID \in Listed(s) THEN 1 ELSE 0
         /\ Len(runs[r].files[s].rows) = Len(runs[r].split_set[s])
         /\ \A k \in 1..Len(runs[r].split_set[s]) :
              runs[r].files[s].rows[k][1] = df[runs[r].split_set[s][k]].HADM_ID
    /\ DisjointReferences =>
         /\ \A s, t \in Splits :
              s # t =>
                /\ Range(runs[r].split_set[s]) \cap Range(runs[r].split_set[t]) = {}
                /\ {df[i].SUBJECT_ID : i \in Range(runs[r].split_set[s])}
                     \cap {df[i].SUBJECT_ID : i \in Range(runs[r].split_set[t])} = {}
         /\ \A i \in 1..Len(df) :
              (\A s \in Splits : df[i].SUBJECT_ID \notin Listed(s)) =>
                \A s \in Splits : i \notin Range(runs[r].split_set[s])

\* C1's case: a call with disjoint reference tables that wrote rows to train and to
\* val and left out the rows of a patient in no reference table.
C1_Witness ==
  /\ runs # <<>> /\ DisjointReferences
  /\ runs[1].files["train"].rows # <<>> /\ runs[1].files["val"].rows # <<>>
  /\ \E i \in 1..Len(df) : \A s \in Splits : i \notin Range(runs[1].split_set[s])

SameRows(f, g) ==
  /\ f.columns = g.columns
  /\ \A x \in Range(f.rows) \cup Range(g.rows) :
       Occurrences(f.rows, x) = Occurrences(g.rows, x)

\* C9 amended: two calls with the same seed write the same three files, and two
\* calls with different seeds write to every split the same rows, in an order that
\* may differ.
C9_SeedDecidesTheOrder ==
  \A a, b \in 1..Len(runs) :
    /\ runs[a].seed = runs[b].seed => runs[a].files = runs[b].files
    /\ \A s \in Splits : SameRows(runs[a].files[s], runs[b].files[s])

\* C9 as stated: moreover two calls with different seeds write the rows of every
\* split in a changed order.
C9_OtherSeedChangesTheOrder ==
  \A a, b \in 1..Len(runs) :
    /\ runs[a].seed = runs[b].seed => runs[a].files = runs[b].files
    /\ \A s \in Splits : SameRows(runs[a].files[s], runs[b].files[s])
    /\ runs[a].seed # runs[b].seed =>
         \A s \in Splits : runs[a].files[s].rows # runs[b].files[s].rows

\* C9's case: two calls with different seeds that wrote the rows of a split, two
\* or more, in different orders.
C9_Witness ==
  \E a, b \in 1..Len(runs) :
    /\ a # b
    /\ runs[a].seed # runs[b].seed
    /\ \E s \in Splits :
         /\ Len(runs[a].files[s].rows) >= 2
         /\ runs[a].files[s].rows # runs[b].files[s].rows

====
